---------------------------- MODULE Spec2Model ----------------------------
(***************************************************************************)
(* Model of pyanaconda/image.py: the ISO image scanner findFirstIsoImage,  *)
(* the retry loop mountImage, the optical media finder opticalInstallMedia *)
(* and the marker-file validator verifyMedia.                              *)
(*                                                                         *)
(* One call of one entry point is modelled per behaviour.  The outcomes of *)
(* the system calls (isIsoImage, mount, access, DiscInfo.load, stat, ...)  *)
(* are chosen by the environment at the moment the code makes the call.    *)
(* A path is taken to be absent, a regular file or a directory, and an     *)
(* unmount of an active mount is taken to succeed.                         *)
(***************************************************************************)
EXTENDS Integers, Sequences, FiniteSets, TLC

\* ------------------------------------------------------------ bounds
\* Longest directory listing handed to the scanner.
MaxFiles == 2
\* Most mounts stacked at /mnt/install/cdimage (a leak is possible, see ffi_load).
MaxMounts == 2
\* Most failures the error policy suppresses before it answers ERROR_RAISE.
MaxPatience == 2
\* Most devices in the device tree.
MaxDevs == 2
\* Most time sources handed to ConfigureNTPTask.
MaxServers == 2

\* ------------------------------------------------------------ values
None == 0
Never == -1
Archs == {"x86_64", "aarch64"}
Sizes == {0, 2047, 2048, 2049, 4096}
PathKinds == {"missing", "isofile", "file", "dir"}
Entries == {"findFirstIsoImage", "mountImage", "opticalInstallMedia",
            "verifyMedia", "ConfigureNTPTask", "ConfigureTimezoneTask"}
NoChk == [of |-> None, iso |-> "?", mounted |-> "?", readable |-> "?",
          parsed |-> "?", repo |-> "?", size |-> -1]

VARIABLES
    entry,       \* the function this behaviour calls
    pc,          \* position in the code
    arch,        \* _arch, the running architecture
    pathKind,    \* what `path` / `isodir` is on disk
    listing,     \* os.listdir(path) when path is a directory
    patience,    \* failures the error policy suppresses, or Never
    cbCount,     \* calls of errorHandler.cb so far (saturates at MaxPatience)
    answer,      \* what the last call of errorHandler.cb returned
    exn,         \* the exception under construction or propagating
    files,       \* findFirstIsoImage: files
    seen,        \* what the scan found for each candidate it has left behind
    nMounted,    \* successful mounts made by the current call
    nUmounted,   \* unmount calls made by the current call
    fn,          \* findFirstIsoImage: index of the loop variable fn in files
    mounts,      \* stack of images mounted at /mnt/install/cdimage
    disc_arch,   \* findFirstIsoImage: disc_arch
    chk,         \* what the checks of the current candidate observed
    retval,      \* findFirstIsoImage: the value returned
    umountErr,   \* an umount was issued with nothing mounted
    image,       \* mountImage: image
    treeMounts,  \* stack of images mounted at `tree`
    devices,     \* devicetree.devices: device -> its attributes
    todo,        \* opticalInstallMedia: candidates the for loop has yet to yield
    dev,         \* opticalInstallMedia: dev
    hasMount,    \* device -> whether dev.format has a mount attribute ("?" before
                 \* handle_format)
    tmpdirs,     \* scratch directories made by tempfile.mkdtemp that still exist
    devMounts,   \* devices whose format is mounted at its scratch directory
    pending,     \* control transfer waiting for the finally blocks to run
    oimRet,      \* opticalInstallMedia: retval
    nActivate,   \* device -> calls of devicetree.handle_format
    nMount,      \* device -> calls of dev.format.mount
    verified,    \* device -> outcome of verifyMedia
    vm_tree,        \* verifyMedia: the mounted tree passed as `tree`
    vm_timestamp,   \* verifyMedia: timestamp
    vm_f,           \* verifyMedia: the file object f, and the lines read from it
    vm_newStamp,    \* verifyMedia: newStamp
    vm_arch,     \* verifyMedia: arch
    vmRet,       \* values returned by the calls of verifyMedia so far
    ntp_enabled,    \* ConfigureNTPTask: ntp_enabled
    ntp_servers,    \* ConfigureNTPTask: ntp_servers, a list of TimeSourceData
    ntp_installed,  \* what util.is_service_installed answers for chronyd
    ntp_conf,       \* {sysroot}/etc/chrony.conf
    nInstalledChecks, \* calls of util.is_service_installed
    nEnable,        \* calls of util.enable_service
    nDisable,       \* calls of util.disable_service
    saveFailed,     \* save_servers_to_config raised NTPconfigError
    logged,         \* levels of the records logged by the task
    input_zone,     \* ConfigureTimezoneTask: the timezone argument
    is_utc,         \* ConfigureTimezoneTask: is_utc
    is_s390,        \* what arch.is_s390() answers
    zoneinfo,       \* zones with a file under {sysroot}/usr/share/zoneinfo
    timezone,       \* the task's timezone, after correction
    localtime,      \* {sysroot}/etc/localtime: the link's target, <<>> if absent
    adjtime,        \* {sysroot}/etc/adjtime
    linkFailed,     \* the link step could not create /etc/localtime
    adjtimeFailed   \* writing /etc/adjtime raised

vars == <<entry, pc, arch, pathKind, listing, patience, cbCount, answer, exn,
          files, seen, nMounted, nUmounted, fn,
          mounts, disc_arch, chk, retval, umountErr, image, treeMounts,
          devices, todo, dev, hasMount, tmpdirs, devMounts, pending, oimRet,
          nActivate, nMount, verified,
          vm_tree, vm_timestamp, vm_f, vm_newStamp, vm_arch, vmRet,
          ntp_enabled, ntp_servers, ntp_installed, ntp_conf, nInstalledChecks,
          nEnable, nDisable, saveFailed, logged,
          input_zone, is_utc, is_s390, zoneinfo, timezone, localtime, adjtime,
          linkFailed, adjtimeFailed>>

envVars == <<entry, arch, pathKind, listing, patience>>
mountImageVars == <<image, treeMounts>>
mountCounts == <<nMounted, nUmounted>>
scanVars == <<cbCount, answer, exn, files, seen, fn, mounts, mountCounts,
              disc_arch, chk, retval, umountErr>>
opticalVars == <<devices, todo, dev, hasMount, tmpdirs, devMounts, pending,
                 oimRet, nActivate, nMount, verified>>

ffiVars == <<cbCount, answer, files, seen, fn, mounts, mountCounts, disc_arch,
             chk, retval, umountErr>>
vmVars == <<vm_tree, vm_timestamp, vm_f, vm_newStamp, vm_arch, vmRet>>
ntpArgs == <<ntp_enabled, ntp_servers, ntp_installed>>
ntpState == <<ntpArgs, ntp_conf, nInstalledChecks, nEnable, nDisable,
              saveFailed>>
ntpVars == <<ntpState, logged>>
imageState == <<ffiVars, mountImageVars, opticalVars, vmVars>>
imageVars == <<imageState, exn>>
tzArgs == <<input_zone, is_utc, is_s390, zoneinfo>>
tzVars == <<tzArgs, timezone, localtime, adjtime, linkFailed, adjtimeFailed>>

\* ------------------------------------------------------------ helpers
ERROR_RAISE == "ERROR_RAISE"
ERROR_RETRY == "ERROR_RETRY"

\* errorHandler.cb(exn): the n-th call answers ERROR_RAISE once the policy's
\* patience is used up; a policy with patience Never always suppresses.
cb(n) == IF patience # Never /\ n >= patience THEN ERROR_RAISE ELSE ERROR_RETRY

Bump(n) == IF n < MaxPatience THEN n + 1 ELSE n

\* os.path.isfile(path)
isfile(k) == k \in {"isofile", "file"}

\* basename of path when path itself is the image
Basename == 1

\* what = os.path.join(path, fn)
what == files[fn]

Top(s) == IF Len(s) > 0 THEN s[Len(s)] ELSE None

\* blivet.util.umount(mount_path): releases the topmost mount of the mount point.
umount(s) == IF Len(s) > 0 THEN SubSeq(s, 1, Len(s) - 1) ELSE s

\* Mutant of _check_repodata: missing metadata is not told from valid metadata.
_check_repodata_NoAbsentCheck(loaded, repo_md) == repo_md # "invalid"

\* _check_repodata(mount_path)
_check_repodata(loaded, repo_md) ==
    IF repo_md = "absent" THEN FALSE ELSE repo_md = "valid"

\* A line of text is a sequence of tokens; the tokens of White are whitespace.
White == {" ", "\n"}

\* str.strip(): drops the leading and the trailing whitespace.
RECURSIVE lstrip(_)
lstrip(s) == IF s # <<>> /\ Head(s) \in White THEN lstrip(Tail(s)) ELSE s

RECURSIVE rstrip(_)
rstrip(s) ==
    IF s # <<>> /\ s[Len(s)] \in White THEN rstrip(SubSeq(s, 1, Len(s) - 1)) ELSE s

strip(s) == rstrip(lstrip(s))

\* The i-th f.readline() of a file: the empty string past the end of the file.
readline(lines, i) == IF i <= Len(lines) THEN lines[i] ELSE <<>>

\* The timestamp argument left at its default, None.
NoTimestamp == <<"None">>

\* Contents of a .discinfo marker: timestamp, description, architecture.
StampLines == {<<"1", "\n">>, <<"2", "\n">>, <<"\n">>}
ArchLines == {<<"x86_64", "\n">>, <<"aarch64", "\n">>, <<"x86_64">>,
              <<" ", "x86_64", " ", "\n">>, <<"x86_64", " ", "aarch64", "\n">>}
Markers ==
    {<<>>}
    \cup {<<t>> : t \in StampLines}
    \cup {<<t, <<"descr", "\n">>>> : t \in StampLines}
    \cup {<<t, <<"descr", "\n">>, a>> : t \in StampLines, a \in ArchLines}

\* A mounted tree as verifyMedia sees it: whether os.access grants reading the
\* marker, whether open/readline then fails, and the marker's lines.
Trees == [readable : BOOLEAN, ioerr : BOOLEAN, lines : Markers]

\* verifyMedia(tree, timestamp): the value returned.
verifyMedia(tree, timestamp) ==
    IF tree.readable
    THEN LET newStamp == strip(readline(tree.lines, 1))
             arch_ == strip(readline(tree.lines, 3))
         IN  IF timestamp # NoTimestamp
             THEN newStamp = timestamp /\ arch_ = <<arch>>
             ELSE arch_ = <<arch>>
    ELSE FALSE

\* verifyMedia raises when the marker passes os.access and reading it fails.
verifyMediaRaises(tree) == tree.readable /\ tree.ioerr

\* The timestamp arguments of verifyMedia: the default, two stamps, the empty
\* string.
Timestamps == {NoTimestamp, <<"1">>, <<"2">>, <<>>}

NoTree == [readable |-> FALSE, ioerr |-> FALSE, lines |-> <<>>]

\* ------------------------------------------------------------ Init
ScanInit ==
    /\ arch \in Archs
    /\ pathKind \in PathKinds
    /\ \E n \in 0..MaxFiles : listing = [i \in 1..n |-> i]
    /\ patience \in {Never} \cup 0..MaxPatience

NoScanInit ==
    /\ arch \in Archs
    /\ pathKind = "missing"
    /\ listing = <<>>
    /\ patience = Never

Devices == [type : {"cdrom", "disk"}, fmt : {"iso9660", "ext4"},
            controllable : BOOLEAN]

OpticalInit == \E n \in 0..MaxDevs : devices \in [1..n -> Devices]

NoOpticalInit == devices = <<>>

VerifyInit == vm_tree \in Trees /\ vm_timestamp \in Timestamps

NoVerifyInit == vm_tree = NoTree /\ vm_timestamp = NoTimestamp

\* TimeSourceData: type, hostname, options.
TimeSources == [type : {"server", "pool"},
                hostname : {"unique.ntp.server", "another.unique.server"},
                options : {<<>>, <<"iburst">>}]

NoFile == [exists |-> FALSE, lines |-> <<>>]

\* The chrony.conf a sysroot may hold before the task runs.
OldConfig == [exists |-> TRUE,
              lines |-> << <<"pool", "2.fedora.pool.ntp.org", "iburst">> >>]

NtpInit ==
    /\ ntp_enabled \in BOOLEAN
    /\ \E n \in 0..MaxServers : ntp_servers \in [1..n -> TimeSources]
    /\ ntp_installed \in BOOLEAN
    /\ ntp_conf \in {NoFile, OldConfig}

NoNtpInit ==
    /\ ntp_enabled = FALSE
    /\ ntp_servers = <<>>
    /\ ntp_installed = FALSE
    /\ ntp_conf = NoFile

\* The timezone arguments: a valid identifier, an unknown name, the empty
\* string, None.
InputZones == {"Europe/Prague", "BahBlah", "", "None"}

\* The zone substituted for an invalid identifier.
FallbackZone == "America/New_York"

\* The identifiers the installer knows as time zones.
ValidZones == {"Europe/Prague", FallbackZone}

\* The relative link made for a zone.
Link(zone) == <<"..", "usr", "share", "zoneinfo", zone>>

NoLink == <<>>

\* The /etc/adjtime a sysroot may hold before the task runs.
OldAdjtimes == {[exists |-> TRUE, lines |-> <<"0.0 0 0.0", "0", mode>>] :
                   mode \in {"UTC", "LOCAL"}}

TimezoneInit ==
    /\ input_zone \in InputZones
    /\ is_utc \in BOOLEAN
    /\ is_s390 \in BOOLEAN
    /\ zoneinfo \in SUBSET ValidZones
    /\ localtime \in {NoLink, Link("Etc/UTC")}
    /\ adjtime \in {NoFile} \cup OldAdjtimes

NoTimezoneInit ==
    /\ input_zone = "None"
    /\ is_utc = FALSE
    /\ is_s390 = FALSE
    /\ zoneinfo = {}
    /\ localtime = NoLink
    /\ adjtime = NoFile

Init ==
    /\ entry \in Entries
    /\ \/ /\ entry = "findFirstIsoImage"
          /\ ScanInit /\ NoOpticalInit /\ NoVerifyInit /\ NoNtpInit /\ NoTimezoneInit
          /\ pc = "ffi_stat"
       \/ /\ entry = "mountImage"
          /\ ScanInit /\ NoOpticalInit /\ NoVerifyInit /\ NoNtpInit /\ NoTimezoneInit
          /\ pc = "mi_loop"
       \/ /\ entry = "opticalInstallMedia"
          /\ NoScanInit /\ OpticalInit /\ NoVerifyInit /\ NoNtpInit /\ NoTimezoneInit
          /\ pc = "oim_start"
       \/ /\ entry = "verifyMedia"
          /\ NoScanInit /\ NoOpticalInit /\ VerifyInit /\ NoNtpInit /\ NoTimezoneInit
          /\ pc = "vm_access"
       \/ /\ entry = "ConfigureNTPTask"
          /\ NoScanInit /\ NoOpticalInit /\ NoVerifyInit /\ NtpInit
          /\ NoTimezoneInit
          /\ pc = "ntp_is_service_installed"
       \/ /\ entry = "ConfigureTimezoneTask"
          /\ NoScanInit /\ NoOpticalInit /\ NoVerifyInit /\ NoNtpInit
          /\ TimezoneInit
          /\ pc = "tz_correct"
    /\ timezone = input_zone
    /\ linkFailed = FALSE
    /\ adjtimeFailed = FALSE
    /\ nInstalledChecks = 0
    /\ nEnable = 0
    /\ nDisable = 0
    /\ saveFailed = FALSE
    /\ logged = {}
    /\ vm_f = [open |-> FALSE, pos |-> 0]
    /\ vm_newStamp = <<>>
    /\ vm_arch = <<>>
    /\ vmRet = <<>>
    /\ todo = {}
    /\ dev = None
    /\ hasMount = [d \in DOMAIN devices |-> "?"]
    /\ tmpdirs = {}
    /\ devMounts = {}
    /\ pending = "none"
    /\ oimRet = None
    /\ nActivate = [d \in DOMAIN devices |-> 0]
    /\ nMount = [d \in DOMAIN devices |-> 0]
    /\ verified = [d \in DOMAIN devices |-> "?"]
    /\ cbCount = 0
    /\ answer = "none"
    /\ exn = "none"
    /\ files = <<>>
    /\ seen = <<>>
    /\ nMounted = 0
    /\ nUmounted = 0
    /\ fn = 0
    /\ mounts = <<>>
    /\ disc_arch = "?"
    /\ chk = NoChk
    /\ retval = None
    /\ umountErr = FALSE
    /\ image = None
    /\ treeMounts = <<>>

\* ------------------------------------------------------------ findFirstIsoImage
\* What the scan found for the candidate it is leaving: the checks made on it
\* and, if its .discinfo was loaded, the architecture read.
Examined == [fn |-> fn, chk |-> chk,
             disc_arch |-> IF chk.parsed = "y" THEN disc_arch ELSE "?"]

\* Mutant of ffi_stat: the OSError of os.stat is not turned into return None.
ffi_stat_NoCheck ==
    /\ pc = "ffi_stat"
    /\ pc' = "ffi_list"
    /\ UNCHANGED <<envVars, tzVars, ntpVars, vmVars, opticalVars,
                   mountImageVars, cbCount, answer, exn, files, seen, fn,
                   mounts, mountCounts, disc_arch, chk, retval, umountErr>>

\* try: os.stat(path) except OSError: return None
ffi_stat ==
    /\ pc = "ffi_stat"
    /\ IF pathKind = "missing"
       THEN /\ retval' = None
            /\ pc' = "ffi_return"
       ELSE /\ pc' = "ffi_list"
            /\ UNCHANGED retval
    /\ UNCHANGED <<envVars, tzVars, ntpVars, vmVars, opticalVars,
                   mountImageVars, cbCount, answer, exn, files, seen, fn,
                   mounts, mountCounts, disc_arch, chk, umountErr>>

\* files = [basename(path)] for an .iso file, else os.listdir(path), which raises
\* NotADirectoryError for a regular file.
ffi_list ==
    /\ pc = "ffi_list"
    /\ \/ /\ pathKind = "isofile"
          /\ files' = <<Basename>>
          /\ pc' = "ffi_loop"
          /\ UNCHANGED exn
       \/ /\ pathKind = "dir"
          /\ files' = listing
          /\ pc' = "ffi_loop"
          /\ UNCHANGED exn
       \/ /\ pathKind = "file"
          /\ exn' = "NotADirectoryError"
          /\ pc' = "raised"
          /\ UNCHANGED files
    /\ fn' = 0
    /\ UNCHANGED <<envVars, tzVars, ntpVars, vmVars, opticalVars,
                   mountImageVars, cbCount, answer, mounts, mountCounts,
                   disc_arch, chk, retval, umountErr, seen>>

\* Mutant of ffi_loop: the loop bound is off by one.
ffi_loop_OffByOne ==
    /\ pc = "ffi_loop"
    /\ IF fn <= Len(files)
       THEN /\ fn' = fn + 1
            /\ chk' = NoChk
            /\ pc' = "ffi_isiso"
            /\ UNCHANGED retval
       ELSE /\ retval' = None
            /\ pc' = "ffi_return"
            /\ UNCHANGED <<fn, chk>>
    /\ seen' = IF fn >= 1 THEN Append(seen, Examined) ELSE seen
    /\ UNCHANGED <<envVars, tzVars, ntpVars, vmVars, opticalVars,
                   mountImageVars, cbCount, answer, exn, files, mounts,
                   mountCounts, disc_arch, umountErr>>

\* for fn in files: ... ; return None
ffi_loop ==
    /\ pc = "ffi_loop"
    /\ IF fn < Len(files)
       THEN /\ fn' = fn + 1
            /\ chk' = NoChk
            /\ pc' = "ffi_isiso"
            /\ UNCHANGED retval
       ELSE /\ retval' = None
            /\ pc' = "ffi_return"
            /\ UNCHANGED <<fn, chk>>
    /\ seen' = IF fn >= 1 THEN Append(seen, Examined) ELSE seen
    /\ UNCHANGED <<envVars, tzVars, ntpVars, vmVars, opticalVars,
                   mountImageVars, cbCount, answer, exn, files, mounts,
                   mountCounts, disc_arch, umountErr>>

\* if not isys.isIsoImage(what): continue
ffi_isiso ==
    /\ pc = "ffi_isiso"
    /\ \E iso \in BOOLEAN :
          /\ chk' = [chk EXCEPT !.iso = IF iso THEN "y" ELSE "n"]
          /\ pc' = IF iso THEN "ffi_mount" ELSE "ffi_loop"
    /\ UNCHANGED <<envVars, tzVars, ntpVars, vmVars, opticalVars,
                   mountImageVars, cbCount, answer, exn, files, seen, fn,
                   mounts, mountCounts, disc_arch, retval, umountErr>>

\* Mutant of ffi_mount: a failed mount is followed by an unmount.
ffi_mount_UmountOnFailure ==
    /\ pc = "ffi_mount"
    /\ \E ok \in BOOLEAN :
          /\ chk' = [chk EXCEPT !.mounted = IF ok THEN "y" ELSE "n"]
          /\ mounts' = IF ok THEN Append(mounts, what) ELSE umount(mounts)
          /\ nUmounted' = IF ok THEN nUmounted ELSE nUmounted + 1
          /\ nMounted' = IF ok THEN nMounted + 1 ELSE nMounted
          /\ pc' = IF ok THEN "ffi_access" ELSE "ffi_loop"
    /\ UNCHANGED <<envVars, tzVars, ntpVars, vmVars, opticalVars,
                   mountImageVars, cbCount, answer, exn, files, seen, fn,
                   disc_arch, retval, umountErr>>

\* try: blivet.util.mount(what, mount_path, ...) except OSError: continue
ffi_mount ==
    /\ pc = "ffi_mount"
    /\ \E ok \in BOOLEAN :
          /\ chk' = [chk EXCEPT !.mounted = IF ok THEN "y" ELSE "n"]
          /\ mounts' = IF ok THEN Append(mounts, what) ELSE mounts
          /\ nMounted' = IF ok THEN nMounted + 1 ELSE nMounted
          /\ pc' = IF ok THEN "ffi_access" ELSE "ffi_loop"
    /\ UNCHANGED <<envVars, tzVars, ntpVars, vmVars, opticalVars,
                   mountImageVars, cbCount, answer, exn, files, seen, fn,
                   disc_arch, retval, umountErr, nUmounted>>

\* if not os.access(discinfo_path, os.R_OK): umount; continue
\* The marker is read through the mount point: it is the marker of the
\* topmost image mounted there, and nothing is readable with no mount.
ffi_access ==
    /\ pc = "ffi_access"
    /\ \E r \in BOOLEAN :
          /\ r => Len(mounts) > 0
          /\ chk' = [chk EXCEPT !.of = Top(mounts),
                                !.readable = IF r THEN "y" ELSE "n"]
          /\ IF r
             THEN /\ pc' = "ffi_load"
                  /\ UNCHANGED <<mounts, nUmounted, umountErr>>
             ELSE /\ mounts' = umount(mounts)
                  /\ nUmounted' = nUmounted + 1
                  /\ umountErr' = (umountErr \/ Len(mounts) = 0)
                  /\ pc' = "ffi_loop"
    /\ UNCHANGED <<envVars, tzVars, ntpVars, vmVars, opticalVars,
                   mountImageVars, cbCount, answer, exn, files, seen, fn,
                   disc_arch, retval, nMounted>>

\* Mutant of ffi_load: the except branch unmounts before the continue.
ffi_load_Umount ==
    /\ pc = "ffi_load"
    /\ \/ \E a \in Archs :
             /\ disc_arch' = a
             /\ chk' = [chk EXCEPT !.parsed = "y"]
             /\ pc' = "ffi_arch"
             /\ UNCHANGED <<mounts, nUmounted>>
       \/ /\ Len(mounts) < MaxMounts
          /\ chk' = [chk EXCEPT !.parsed = "n"]
          /\ mounts' = umount(mounts)
          /\ nUmounted' = nUmounted + 1
          /\ pc' = "ffi_loop"
          /\ UNCHANGED disc_arch
    /\ UNCHANGED <<envVars, tzVars, ntpVars, vmVars, opticalVars,
                   mountImageVars, cbCount, answer, exn, files, seen, fn,
                   retval, umountErr, nMounted>>

\* try: disc_info.load(discinfo_path); disc_arch = disc_info.arch
\* except Exception: log.warning(...); continue        (no umount)
ffi_load ==
    /\ pc = "ffi_load"
    /\ \/ \E a \in Archs :
             /\ disc_arch' = a
             /\ chk' = [chk EXCEPT !.parsed = "y"]
             /\ pc' = "ffi_arch"
       \/ /\ Len(mounts) < MaxMounts
          /\ chk' = [chk EXCEPT !.parsed = "n"]
          /\ pc' = "ffi_loop"
          /\ UNCHANGED disc_arch
    /\ UNCHANGED <<envVars, tzVars, ntpVars, vmVars, opticalVars,
                   mountImageVars, cbCount, answer, exn, files, seen, fn,
                   mounts, mountCounts, retval, umountErr>>

\* Mutant of ffi_arch: a mismatching architecture is only logged.
ffi_arch_NoReject ==
    /\ pc = "ffi_arch"
    /\ pc' = "ffi_repodata"
    /\ UNCHANGED <<envVars, tzVars, ntpVars, vmVars, opticalVars,
                   mountImageVars, cbCount, answer, exn, files, seen, fn,
                   mounts, mountCounts, disc_arch, chk, retval, umountErr>>

\* if disc_arch != arch: umount; continue
ffi_arch ==
    /\ pc = "ffi_arch"
    /\ IF disc_arch # arch
       THEN /\ mounts' = umount(mounts)
            /\ nUmounted' = nUmounted + 1
            /\ umountErr' = (umountErr \/ Len(mounts) = 0)
            /\ pc' = "ffi_loop"
       ELSE /\ pc' = "ffi_repodata"
            /\ UNCHANGED <<mounts, nUmounted, umountErr>>
    /\ UNCHANGED <<envVars, tzVars, ntpVars, vmVars, opticalVars,
                   mountImageVars, cbCount, answer, exn, files, seen, fn,
                   disc_arch, chk, retval, nMounted>>

\* if not _check_repodata(mount_path): umount; continue
ffi_repodata ==
    /\ pc = "ffi_repodata"
    /\ \E loaded \in BOOLEAN, repo_md \in {"absent", "invalid", "valid"} :
          LET ok == _check_repodata(loaded, repo_md) IN
          /\ chk' = [chk EXCEPT !.repo = repo_md]
          /\ IF ~ok
             THEN /\ mounts' = umount(mounts)
                  /\ nUmounted' = nUmounted + 1
                  /\ umountErr' = (umountErr \/ Len(mounts) = 0)
                  /\ pc' = "ffi_loop"
             ELSE /\ pc' = "ffi_size"
                  /\ UNCHANGED <<mounts, nUmounted, umountErr>>
    /\ UNCHANGED <<envVars, tzVars, ntpVars, vmVars, opticalVars,
                   mountImageVars, cbCount, answer, exn, files, seen, fn,
                   disc_arch, retval, nMounted>>

\* if os.stat(what)[stat.ST_SIZE] % 2048: exn = InvalidImageSizeError(...)
ffi_size ==
    /\ pc = "ffi_size"
    /\ \E sz \in Sizes :
          /\ chk' = [chk EXCEPT !.size = sz]
          /\ IF sz % 2048 # 0
             THEN /\ exn' = "InvalidImageSizeError"
                  /\ pc' = "ffi_size_cb"
             ELSE /\ pc' = "ffi_found"
                  /\ UNCHANGED exn
    /\ UNCHANGED <<envVars, tzVars, ntpVars, vmVars, opticalVars,
                   mountImageVars, cbCount, answer, files, seen, fn, mounts,
                   mountCounts, disc_arch, retval, umountErr>>

\* Mutant of ffi_size_cb: a suppressed size error rejects the candidate.
ffi_size_cb_Reject ==
    /\ pc = "ffi_size_cb"
    /\ cbCount' = Bump(cbCount)
    /\ answer' = cb(cbCount)
    /\ IF cb(cbCount) = ERROR_RAISE
       THEN /\ pc' = "raised"
            /\ UNCHANGED <<exn, mounts, nUmounted, umountErr>>
       ELSE /\ mounts' = umount(mounts)
            /\ nUmounted' = nUmounted + 1
            /\ umountErr' = (umountErr \/ Len(mounts) = 0)
            /\ pc' = "ffi_loop"
            /\ exn' = "none"
    /\ UNCHANGED <<envVars, tzVars, ntpVars, vmVars, opticalVars,
                   mountImageVars, files, seen, fn, disc_arch, chk, retval,
                   nMounted>>

\* if errorHandler.cb(exn) == ERROR_RAISE: raise exn
ffi_size_cb ==
    /\ pc = "ffi_size_cb"
    /\ cbCount' = Bump(cbCount)
    /\ answer' = cb(cbCount)
    /\ IF cb(cbCount) = ERROR_RAISE
       THEN /\ pc' = "raised"
            /\ UNCHANGED exn
       ELSE /\ pc' = "ffi_found"
            /\ exn' = "none"
    /\ UNCHANGED <<envVars, tzVars, ntpVars, vmVars, opticalVars,
                   mountImageVars, files, seen, fn, mounts, mountCounts,
                   disc_arch, chk, retval, umountErr>>

\* Mutant of ffi_found: the first name of the listing is returned.
ffi_found_ReturnsFirst ==
    /\ pc = "ffi_found"
    /\ mounts' = umount(mounts)
    /\ nUmounted' = nUmounted + 1
    /\ umountErr' = (umountErr \/ Len(mounts) = 0)
    /\ retval' = files[1]
    /\ seen' = Append(seen, Examined)
    /\ pc' = "ffi_return"
    /\ UNCHANGED <<envVars, tzVars, ntpVars, vmVars, opticalVars,
                   mountImageVars, cbCount, answer, exn, files, fn, disc_arch,
                   chk, nMounted>>

\* blivet.util.umount(mount_path); return fn
ffi_found ==
    /\ pc = "ffi_found"
    /\ mounts' = umount(mounts)
    /\ nUmounted' = nUmounted + 1
    /\ umountErr' = (umountErr \/ Len(mounts) = 0)
    /\ retval' = what
    /\ seen' = Append(seen, Examined)
    /\ pc' = "ffi_return"
    /\ UNCHANGED <<envVars, tzVars, ntpVars, vmVars, opticalVars,
                   mountImageVars, cbCount, answer, exn, files, fn, disc_arch,
                   chk, nMounted>>

\* ------------------------------------------------------------ mountImage
\* while True: if os.path.isfile(isodir): image = isodir
\*             else: image = findFirstIsoImage(isodir)
mi_loop ==
    /\ pc = "mi_loop"
    /\ IF isfile(pathKind)
       THEN /\ image' = Basename
            /\ pc' = "mi_mount"
            /\ UNCHANGED <<files, seen, mountCounts, fn, disc_arch, chk,
                           retval>>
       ELSE /\ pc' = "ffi_stat"
            /\ files' = <<>>
            /\ fn' = 0
            /\ disc_arch' = "?"
            /\ chk' = NoChk
            /\ retval' = None
            /\ seen' = <<>>
            /\ nMounted' = 0
            /\ nUmounted' = 0
            /\ UNCHANGED image
    /\ UNCHANGED <<envVars, tzVars, ntpVars, vmVars, opticalVars, treeMounts,
                   cbCount, answer, exn, mounts, umountErr>>

\* Mutant of mi_scanned: the result of the scan is not tested for None.
mi_scanned_NoNoneCheck ==
    /\ entry = "mountImage"
    /\ pc = "ffi_return"
    /\ image' = retval
    /\ pc' = "mi_mount"
    /\ UNCHANGED <<envVars, tzVars, ntpVars, vmVars, opticalVars, treeMounts,
                   cbCount, answer, exn, files, seen, fn, mounts, mountCounts,
                   disc_arch, chk, retval, umountErr>>

\* if image is None: exn = MissingImageError() ...
\* image = os.path.normpath("%s/%s" % (isodir, image))
mi_scanned ==
    /\ entry = "mountImage"
    /\ pc = "ffi_return"
    /\ image' = retval
    /\ IF retval = None
       THEN /\ exn' = "MissingImageError"
            /\ pc' = "mi_missing_cb"
       ELSE /\ pc' = "mi_mount"
            /\ UNCHANGED exn
    /\ UNCHANGED <<envVars, tzVars, ntpVars, vmVars, opticalVars, treeMounts,
                   cbCount, answer, files, seen, fn, mounts, mountCounts,
                   disc_arch, chk, retval, umountErr>>

\* if errorHandler.cb(exn) == ERROR_RAISE: raise exn else: continue
mi_missing_cb ==
    /\ pc = "mi_missing_cb"
    /\ cbCount' = Bump(cbCount)
    /\ answer' = cb(cbCount)
    /\ IF cb(cbCount) = ERROR_RAISE
       THEN /\ pc' = "raised"
            /\ UNCHANGED exn
       ELSE /\ pc' = "mi_loop"
            /\ exn' = "none"
    /\ UNCHANGED <<envVars, tzVars, ntpVars, vmVars, opticalVars,
                   mountImageVars, files, seen, fn, mounts, mountCounts,
                   disc_arch, chk, retval, umountErr>>

\* Mutant of mi_mount: the loop is left whether or not the mount succeeded.
mi_mount_BreakOnFailure ==
    /\ pc = "mi_mount"
    /\ \E ok \in BOOLEAN :
          IF ok
          THEN /\ treeMounts' = Append(treeMounts, image)
               /\ pc' = "mi_done"
               /\ UNCHANGED exn
          ELSE /\ exn' = "MissingImageError"
               /\ pc' = "mi_done"
               /\ UNCHANGED treeMounts
    /\ UNCHANGED <<envVars, tzVars, ntpVars, vmVars, opticalVars, image,
                   cbCount, answer, files, seen, fn, mounts, mountCounts,
                   disc_arch, chk, retval, umountErr>>

\* try: blivet.util.mount(image, tree, ...) except OSError: exn = MissingImageError()
\* else: break
mi_mount ==
    /\ pc = "mi_mount"
    /\ \E ok \in BOOLEAN :
          IF ok
          THEN /\ treeMounts' = Append(treeMounts, image)
               /\ pc' = "mi_done"
               /\ UNCHANGED exn
          ELSE /\ exn' = "MissingImageError"
               /\ pc' = "mi_mount_cb"
               /\ UNCHANGED treeMounts
    /\ UNCHANGED <<envVars, tzVars, ntpVars, vmVars, opticalVars, image,
                   cbCount, answer, files, seen, fn, mounts, mountCounts,
                   disc_arch, chk, retval, umountErr>>

\* Mutant of mi_mount_cb: a suppressed failure retries the mount of the same image.
mi_mount_cb_RetryMount ==
    /\ pc = "mi_mount_cb"
    /\ cbCount' = Bump(cbCount)
    /\ answer' = cb(cbCount)
    /\ IF cb(cbCount) = ERROR_RAISE
       THEN /\ pc' = "raised"
            /\ UNCHANGED exn
       ELSE /\ pc' = "mi_mount"
            /\ exn' = "none"
    /\ UNCHANGED <<envVars, tzVars, ntpVars, vmVars, opticalVars,
                   mountImageVars, files, seen, fn, mounts, mountCounts,
                   disc_arch, chk, retval, umountErr>>

\* Mutant of mi_mount_cb: a failed mount is retried without asking the policy.
mi_mount_cb_NoPolicy ==
    /\ pc = "mi_mount_cb"
    /\ pc' = "mi_loop"
    /\ exn' = "none"
    /\ UNCHANGED <<envVars, tzVars, ntpVars, vmVars, opticalVars,
                   mountImageVars, cbCount, answer, files, seen, fn, mounts,
                   mountCounts, disc_arch, chk, retval, umountErr>>

\* if errorHandler.cb(exn) == ERROR_RAISE: raise exn else: continue
mi_mount_cb ==
    /\ pc = "mi_mount_cb"
    /\ cbCount' = Bump(cbCount)
    /\ answer' = cb(cbCount)
    /\ IF cb(cbCount) = ERROR_RAISE
       THEN /\ pc' = "raised"
            /\ UNCHANGED exn
       ELSE /\ pc' = "mi_loop"
            /\ exn' = "none"
    /\ UNCHANGED <<envVars, tzVars, ntpVars, vmVars, opticalVars,
                   mountImageVars, files, seen, fn, mounts, mountCounts,
                   disc_arch, chk, retval, umountErr>>

\* ------------------------------------------------------------ opticalInstallMedia
\* retval = None; the candidates are set(cdrom devices + iso9660 devices)
oim_start ==
    /\ pc = "oim_start"
    /\ oimRet' = None
    /\ todo' = {d \in DOMAIN devices : devices[d].type = "cdrom"}
                \cup {d \in DOMAIN devices : devices[d].fmt = "iso9660"}
    /\ pc' = "oim_loop"
    /\ UNCHANGED <<envVars, tzVars, ntpVars, vmVars, scanVars, mountImageVars,
                   devices, dev, hasMount, tmpdirs, devMounts, pending,
                   nActivate, nMount, verified>>

\* Mutant of oim_loop: a device taken from the set stays among those to come.
oim_loop_Again ==
    /\ pc = "oim_loop"
    /\ IF todo # {}
       THEN \E d \in todo :
               /\ dev' = d
               /\ todo' = todo
               /\ pc' = "oim_controllable"
       ELSE /\ pc' = "oim_return"
            /\ UNCHANGED <<dev, todo>>
    /\ UNCHANGED <<envVars, tzVars, ntpVars, vmVars, scanVars, mountImageVars,
                   devices, hasMount, tmpdirs, devMounts, pending, oimRet,
                   nActivate, nMount, verified>>

\* for dev in set(...): the set yields its elements in no particular order;
\* return retval once it is exhausted.
oim_loop ==
    /\ pc = "oim_loop"
    /\ IF todo # {}
       THEN \E d \in todo :
               /\ dev' = d
               /\ todo' = todo \ {d}
               /\ pc' = "oim_controllable"
       ELSE /\ pc' = "oim_return"
            /\ UNCHANGED <<dev, todo>>
    /\ UNCHANGED <<envVars, tzVars, ntpVars, vmVars, scanVars, mountImageVars,
                   devices, hasMount, tmpdirs, devMounts, pending, oimRet,
                   nActivate, nMount, verified>>

\* Mutant of oim_controllable: the controllable test is dropped.
oim_controllable_NoSkip ==
    /\ pc = "oim_controllable"
    /\ pc' = "oim_handle_format"
    /\ UNCHANGED <<envVars, tzVars, ntpVars, vmVars, scanVars, mountImageVars,
                   opticalVars>>

\* if not dev.controllable: continue
oim_controllable ==
    /\ pc = "oim_controllable"
    /\ pc' = IF devices[dev].controllable THEN "oim_handle_format" ELSE "oim_loop"
    /\ UNCHANGED <<envVars, tzVars, ntpVars, vmVars, scanVars, mountImageVars,
                   opticalVars>>

\* devicetree.handle_format(None, dev); if not hasattr(dev.format, "mount"): continue
oim_handle_format ==
    /\ pc = "oim_handle_format"
    /\ nActivate' = [nActivate EXCEPT ![dev] = @ + 1]
    /\ \E m \in BOOLEAN :
          /\ hasMount' = [hasMount EXCEPT ![dev] = IF m THEN "y" ELSE "n"]
          /\ pc' = IF m THEN "oim_mkdtemp" ELSE "oim_loop"
    /\ UNCHANGED <<envVars, tzVars, ntpVars, vmVars, scanVars, mountImageVars,
                   devices, todo, dev, tmpdirs, devMounts, pending, oimRet,
                   nMount, verified>>

\* mountpoint = tempfile.mkdtemp()
oim_mkdtemp ==
    /\ pc = "oim_mkdtemp"
    /\ tmpdirs' = tmpdirs \cup {dev}
    /\ pc' = "oim_mount"
    /\ UNCHANGED <<envVars, tzVars, ntpVars, vmVars, scanVars, mountImageVars,
                   devices, todo, dev, hasMount, devMounts, pending, oimRet,
                   nActivate, nMount, verified>>

\* try: dev.format.mount(mountpoint=mountpoint) except FSError: continue
\* (the continue first runs the outer finally)
oim_mount ==
    /\ pc = "oim_mount"
    /\ nMount' = [nMount EXCEPT ![dev] = @ + 1]
    /\ \E ok \in BOOLEAN :
          IF ok
          THEN /\ devMounts' = devMounts \cup {dev}
               /\ nMounted' = nMounted + 1
               /\ pc' = "oim_verify"
               /\ UNCHANGED pending
          ELSE /\ pending' = "continue"
               /\ pc' = "oim_rmdir"
               /\ UNCHANGED <<devMounts, nMounted>>
    /\ UNCHANGED <<envVars, tzVars, ntpVars, vmVars, mountImageVars, devices,
                   todo, dev, hasMount, tmpdirs, oimRet, nActivate, verified,
                   cbCount, answer, exn, files, seen, fn, mounts, disc_arch,
                   chk, retval, umountErr, nUmounted>>

\* Mutant of oim_verify: an error of verifyMedia leaves without the finally blocks.
oim_verify_NoFinally ==
    /\ pc = "oim_verify"
    /\ \E tree \in Trees :
          IF verifyMediaRaises(tree)
          THEN /\ verified' = [verified EXCEPT ![dev] = "raise"]
               /\ exn' = "IOError"
               /\ pending' = "none"
               /\ pc' = "raised"
          ELSE /\ verified' = [verified EXCEPT ![dev] =
                                 IF verifyMedia(tree, NoTimestamp) THEN "y" ELSE "n"]
               /\ pending' = IF verifyMedia(tree, NoTimestamp)
                             THEN "fall" ELSE "continue"
               /\ pc' = "oim_unmount"
               /\ UNCHANGED exn
    /\ UNCHANGED <<envVars, tzVars, ntpVars, vmVars, mountImageVars, cbCount,
                   answer, files, seen, fn, mounts, mountCounts, disc_arch, chk,
                   retval, umountErr, devices, todo, dev, hasMount, tmpdirs,
                   devMounts, oimRet, nActivate, nMount>>

\* try: if not verifyMedia(mountpoint): continue   (then the inner finally)
oim_verify ==
    /\ pc = "oim_verify"
    /\ \E tree \in Trees :
          IF verifyMediaRaises(tree)
          THEN /\ verified' = [verified EXCEPT ![dev] = "raise"]
               /\ exn' = "IOError"
               /\ pending' = "raise"
          ELSE /\ verified' = [verified EXCEPT ![dev] =
                                 IF verifyMedia(tree, NoTimestamp) THEN "y" ELSE "n"]
               /\ pending' = IF verifyMedia(tree, NoTimestamp)
                             THEN "fall" ELSE "continue"
               /\ UNCHANGED exn
    /\ pc' = "oim_unmount"
    /\ UNCHANGED <<envVars, tzVars, ntpVars, vmVars, mountImageVars, cbCount,
                   answer, files, seen, fn, mounts, mountCounts, disc_arch, chk,
                   retval, umountErr, devices, todo, dev, hasMount, tmpdirs,
                   devMounts, oimRet, nActivate, nMount>>

\* finally: dev.format.unmount(mountpoint=mountpoint)
oim_unmount ==
    /\ pc = "oim_unmount"
    /\ devMounts' = devMounts \ {dev}
    /\ nUmounted' = nUmounted + 1
    /\ pc' = "oim_rmdir"
    /\ UNCHANGED <<envVars, tzVars, ntpVars, vmVars, mountImageVars, devices,
                   todo, dev, hasMount, tmpdirs, pending, oimRet, nActivate,
                   nMount, verified, cbCount, answer, exn, files, seen, fn,
                   mounts, disc_arch, chk, retval, umountErr, nMounted>>

\* Mutant of oim_rmdir: a pending continue is lost, the device is taken.
oim_rmdir_NoContinue ==
    /\ pc = "oim_rmdir"
    /\ tmpdirs' = tmpdirs \ {dev}
    /\ pending' = "none"
    /\ pc' = CASE pending = "raise" -> "raised"
              [] OTHER -> "oim_found"
    /\ UNCHANGED <<envVars, tzVars, ntpVars, vmVars, scanVars, mountImageVars,
                   devices, todo, dev, hasMount, devMounts, oimRet, nActivate,
                   nMount, verified>>

\* finally: os.rmdir(mountpoint), then the pending continue, raise or fall-through
oim_rmdir ==
    /\ pc = "oim_rmdir"
    /\ tmpdirs' = tmpdirs \ {dev}
    /\ pending' = "none"
    /\ pc' = CASE pending = "continue" -> "oim_loop"
              [] pending = "raise" -> "raised"
              [] OTHER -> "oim_found"
    /\ UNCHANGED <<envVars, tzVars, ntpVars, vmVars, scanVars, mountImageVars,
                   devices, todo, dev, hasMount, devMounts, oimRet, nActivate,
                   nMount, verified>>

\* Mutant of oim_found: the loop goes on after retval = dev.
oim_found_NoBreak ==
    /\ pc = "oim_found"
    /\ oimRet' = dev
    /\ pc' = "oim_loop"
    /\ UNCHANGED <<envVars, tzVars, ntpVars, vmVars, scanVars, mountImageVars,
                   devices, todo, dev, hasMount, tmpdirs, devMounts, pending,
                   nActivate, nMount, verified>>

\* retval = dev; break; return retval
oim_found ==
    /\ pc = "oim_found"
    /\ oimRet' = dev
    /\ pc' = "oim_return"
    /\ UNCHANGED <<envVars, tzVars, ntpVars, vmVars, scanVars, mountImageVars,
                   devices, todo, dev, hasMount, tmpdirs, devMounts, pending,
                   nActivate, nMount, verified>>

\* ------------------------------------------------------------ verifyMedia
\* if os.access("%s/.discinfo" % tree, os.R_OK): ... ; return False
vm_access ==
    /\ pc = "vm_access"
    /\ IF vm_tree.readable
       THEN /\ pc' = "vm_open"
            /\ UNCHANGED vmRet
       ELSE /\ vmRet' = Append(vmRet, FALSE)
            /\ pc' = "vm_return"
    /\ UNCHANGED <<envVars, tzVars, ntpVars, ffiVars, mountImageVars,
                   opticalVars, exn, vm_tree, vm_timestamp, vm_f, vm_newStamp,
                   vm_arch>>

\* Mutant of vm_open: the file object of the previous call is used again.
vm_open_KeepsHandle ==
    /\ pc = "vm_open"
    /\ IF vm_tree.ioerr
       THEN /\ exn' = "IOError"
            /\ pc' = "raised"
            /\ UNCHANGED vm_f
       ELSE /\ vm_f' = [open |-> TRUE, pos |-> vm_f.pos]
            /\ pc' = "vm_read"
            /\ UNCHANGED exn
    /\ UNCHANGED <<envVars, tzVars, ntpVars, ffiVars, mountImageVars,
                   opticalVars, vm_tree, vm_timestamp, vm_newStamp, vm_arch,
                   vmRet>>

\* f = open("%s/.discinfo" % tree): a new file object, at the start of the file
vm_open ==
    /\ pc = "vm_open"
    /\ IF vm_tree.ioerr
       THEN /\ exn' = "IOError"
            /\ pc' = "raised"
            /\ UNCHANGED vm_f
       ELSE /\ vm_f' = [open |-> TRUE, pos |-> 0]
            /\ pc' = "vm_read"
            /\ UNCHANGED exn
    /\ UNCHANGED <<envVars, tzVars, ntpVars, ffiVars, mountImageVars,
                   opticalVars, vm_tree, vm_timestamp, vm_newStamp, vm_arch,
                   vmRet>>

\* newStamp = f.readline().strip(); f.readline(); arch = f.readline().strip()
\* f.close()
vm_read ==
    /\ pc = "vm_read"
    /\ vm_newStamp' = strip(readline(vm_tree.lines, vm_f.pos + 1))
    /\ vm_arch' = strip(readline(vm_tree.lines, vm_f.pos + 3))
    /\ vm_f' = [open |-> FALSE, pos |-> vm_f.pos + 3]
    /\ pc' = "vm_cmp"
    /\ UNCHANGED <<envVars, tzVars, ntpVars, ffiVars, mountImageVars,
                   opticalVars, exn, vm_tree, vm_timestamp, vmRet>>

\* Mutant of vm_cmp: the timestamp argument is not compared.
vm_cmp_IgnoresTimestamp ==
    /\ pc = "vm_cmp"
    /\ vmRet' = Append(vmRet, vm_arch = <<arch>>)
    /\ pc' = "vm_return"
    /\ UNCHANGED <<envVars, tzVars, ntpVars, ffiVars, mountImageVars,
                   opticalVars, exn, vm_tree, vm_timestamp, vm_f, vm_newStamp,
                   vm_arch>>

\* if timestamp is not None: if newStamp == timestamp and arch == _arch: return True
\* else: if arch == _arch: return True
\* return False
vm_cmp ==
    /\ pc = "vm_cmp"
    /\ vmRet' = Append(vmRet,
                       IF vm_timestamp # NoTimestamp
                       THEN vm_newStamp = vm_timestamp /\ vm_arch = <<arch>>
                       ELSE vm_arch = <<arch>>)
    /\ pc' = "vm_return"
    /\ UNCHANGED <<envVars, tzVars, ntpVars, ffiVars, mountImageVars,
                   opticalVars, exn, vm_tree, vm_timestamp, vm_f, vm_newStamp,
                   vm_arch>>

\* The caller calls verifyMedia a second time, with the same arguments.
vm_again ==
    /\ pc = "vm_return"
    /\ Len(vmRet) < 2
    /\ pc' = "vm_access"
    /\ UNCHANGED <<envVars, tzVars, ntpVars, ffiVars, mountImageVars,
                   opticalVars, exn, vmVars>>

\* ------------------------------------------------------------ ConfigureNTPTask
\* One line of chrony.conf for a time source: its type, hostname and options.
ConfigLine(src) == <<src.type, src.hostname>> \o src.options

\* save_servers_to_config: the file is replaced by one line per source, in the
\* order of the sources.
save_servers_to_config(servers) ==
    [exists |-> TRUE,
     lines |-> [i \in 1..Len(servers) |-> ConfigLine(servers[i])]]

\* Mutant of ntp_is_service_installed: the answer is not looked at.
ntp_is_service_installed_Ignored ==
    /\ pc = "ntp_is_service_installed"
    /\ nInstalledChecks' = nInstalledChecks + 1
    /\ pc' = "ntp_service"
    /\ UNCHANGED <<envVars, tzVars, imageVars, ntpArgs, ntp_conf, nEnable,
                   nDisable, saveFailed, logged>>

\* util.is_service_installed(NTP_SERVICE, root=sysroot); not installed: the
\* service is neither enabled nor disabled.
ntp_is_service_installed ==
    /\ pc = "ntp_is_service_installed"
    /\ nInstalledChecks' = nInstalledChecks + 1
    /\ pc' = IF ntp_installed THEN "ntp_service" ELSE "ntp_config"
    /\ UNCHANGED <<envVars, tzVars, imageVars, ntpArgs, ntp_conf, nEnable,
                   nDisable, saveFailed, logged>>

\* Mutant of ntp_service: the service is enabled whatever ntp_enabled says.
ntp_service_AlwaysEnable ==
    /\ pc = "ntp_service"
    /\ nEnable' = nEnable + 1
    /\ pc' = "ntp_config"
    /\ UNCHANGED <<envVars, tzVars, imageVars, ntpArgs, ntp_conf,
                   nInstalledChecks, nDisable, saveFailed, logged>>

\* util.enable_service(NTP_SERVICE, root=sysroot) if ntp_enabled, else
\* util.disable_service(NTP_SERVICE, root=sysroot)
ntp_service ==
    /\ pc = "ntp_service"
    /\ IF ntp_enabled
       THEN nEnable' = nEnable + 1 /\ UNCHANGED nDisable
       ELSE nDisable' = nDisable + 1 /\ UNCHANGED nEnable
    /\ pc' = "ntp_config"
    /\ UNCHANGED <<envVars, tzVars, imageVars, ntpArgs, ntp_conf,
                   nInstalledChecks, saveFailed, logged>>

\* Mutant of ntp_config: NTPconfigError is not caught.
ntp_config_Raises ==
    /\ pc = "ntp_config"
    /\ IF ntp_enabled /\ ntp_servers # <<>>
       THEN \E failure \in BOOLEAN :
               IF failure
               THEN /\ saveFailed' = TRUE
                    /\ exn' = "NTPconfigError"
                    /\ pc' = "raised"
                    /\ UNCHANGED ntp_conf
               ELSE /\ ntp_conf' = save_servers_to_config(ntp_servers)
                    /\ pc' = "ntp_done"
                    /\ UNCHANGED <<saveFailed, exn>>
       ELSE /\ pc' = "ntp_done"
            /\ UNCHANGED <<ntp_conf, saveFailed, exn>>
    /\ UNCHANGED <<envVars, tzVars, ffiVars, mountImageVars, opticalVars,
                   vmVars, ntpArgs, nInstalledChecks, nEnable, nDisable,
                   logged>>

\* With NTP enabled and a time source given, the configuration file is written;
\* NTPconfigError is caught and logged as a warning.
ntp_config ==
    /\ pc = "ntp_config"
    /\ IF ntp_enabled /\ ntp_servers # <<>>
       THEN \E failure \in BOOLEAN :
               IF failure
               THEN /\ saveFailed' = TRUE
                    /\ logged' = logged \cup {"WARNING"}
                    /\ UNCHANGED ntp_conf
               ELSE /\ ntp_conf' = save_servers_to_config(ntp_servers)
                    /\ UNCHANGED <<saveFailed, logged>>
       ELSE UNCHANGED <<ntp_conf, saveFailed, logged>>
    /\ pc' = "ntp_done"
    /\ UNCHANGED <<envVars, tzVars, imageVars, ntpArgs, nInstalledChecks,
                   nEnable, nDisable>>

\* ------------------------------------------------------------ ConfigureTimezoneTask
\* Mutant of tz_correct: an invalid identifier is kept.
tz_correct_Kept ==
    /\ pc = "tz_correct"
    /\ pc' = "tz_remove"
    /\ UNCHANGED <<envVars, imageVars, ntpVars, tzVars>>

\* An identifier that is not a valid time zone is replaced by the fallback zone,
\* and the correction is logged.
tz_correct ==
    /\ pc = "tz_correct"
    /\ IF timezone \notin ValidZones
       THEN /\ timezone' = FallbackZone
            /\ logged' = logged \cup {"WARNING"}
       ELSE UNCHANGED <<timezone, logged>>
    /\ pc' = "tz_remove"
    /\ UNCHANGED <<envVars, imageVars, ntpState, tzArgs, localtime, adjtime,
                   linkFailed, adjtimeFailed>>

\* Mutant of tz_remove: an existing /etc/localtime is left in place.
tz_remove_Kept ==
    /\ pc = "tz_remove"
    /\ pc' = "tz_symlink"
    /\ UNCHANGED <<envVars, imageVars, ntpVars, tzVars>>

\* Any existing /etc/localtime is removed.
tz_remove ==
    /\ pc = "tz_remove"
    /\ localtime' = NoLink
    /\ pc' = "tz_symlink"
    /\ UNCHANGED <<envVars, imageVars, ntpVars, tzArgs, timezone, adjtime,
                   linkFailed, adjtimeFailed>>

\* Mutant of tz_symlink: a link that cannot be created raises.
tz_symlink_Raises ==
    /\ pc = "tz_symlink"
    /\ \E oserror \in BOOLEAN :
          IF timezone \notin zoneinfo \/ oserror
          THEN /\ linkFailed' = TRUE
               /\ exn' = "TimezoneConfigurationError"
               /\ pc' = "raised"
               /\ UNCHANGED localtime
          ELSE /\ localtime' = Link(timezone)
               /\ pc' = "tz_is_s390"
               /\ UNCHANGED <<linkFailed, exn>>
    /\ UNCHANGED <<envVars, imageState, ntpVars, tzArgs, timezone, adjtime,
                   adjtimeFailed>>

\* The relative link to the zone file is made. With the zone file missing from
\* the sysroot, or os.symlink raising OSError, an error is logged, nothing is
\* raised and there is no /etc/localtime.
tz_symlink ==
    /\ pc = "tz_symlink"
    /\ \E oserror \in BOOLEAN :
          IF timezone \notin zoneinfo \/ oserror
          THEN /\ linkFailed' = TRUE
               /\ logged' = logged \cup {"ERROR"}
               /\ UNCHANGED localtime
          ELSE /\ localtime' = Link(timezone)
               /\ UNCHANGED <<linkFailed, logged>>
    /\ pc' = "tz_is_s390"
    /\ UNCHANGED <<envVars, imageVars, ntpState, tzArgs, timezone, adjtime,
                   adjtimeFailed>>

\* if arch.is_s390(): /etc/adjtime is not written
tz_is_s390 ==
    /\ pc = "tz_is_s390"
    /\ pc' = IF is_s390 THEN "tz_done" ELSE "tz_adjtime"
    /\ UNCHANGED <<envVars, imageVars, ntpVars, tzVars>>

\* The lines of /etc/adjtime as read, or the default lines when it cannot be
\* read.
adjtime_lines == IF adjtime.exists THEN adjtime.lines ELSE <<"0.0 0 0.0", "0">>

\* /etc/adjtime with its last line recording UTC or LOCAL.
adjtime_written ==
    LET mode == IF is_utc THEN "UTC" ELSE "LOCAL"
    IN  [exists |-> TRUE,
         lines |-> IF Len(adjtime_lines) >= 3
                   THEN [adjtime_lines EXCEPT ![Len(adjtime_lines)] = mode]
                   ELSE Append(adjtime_lines, mode)]

\* Mutant of tz_adjtime: a write failure is logged and the task ends.
tz_adjtime_LogsOnly ==
    /\ pc = "tz_adjtime"
    /\ \E failure \in BOOLEAN :
          IF failure
          THEN /\ adjtimeFailed' = TRUE
               /\ logged' = logged \cup {"ERROR"}
               /\ UNCHANGED adjtime
          ELSE /\ adjtime' = adjtime_written
               /\ UNCHANGED <<adjtimeFailed, logged>>
    /\ pc' = "tz_done"
    /\ UNCHANGED <<envVars, imageVars, ntpState, tzArgs, timezone, localtime,
                   linkFailed>>

\* /etc/adjtime is read, its last line set, and written; a write failure raises
\* TimezoneConfigurationError.
tz_adjtime ==
    /\ pc = "tz_adjtime"
    /\ \E failure \in BOOLEAN :
          IF failure
          THEN /\ adjtimeFailed' = TRUE
               /\ exn' = "TimezoneConfigurationError"
               /\ pc' = "raised"
               /\ UNCHANGED adjtime
          ELSE /\ adjtime' = adjtime_written
               /\ pc' = "tz_done"
               /\ UNCHANGED <<adjtimeFailed, exn>>
    /\ UNCHANGED <<envVars, imageState, ntpVars, tzArgs, timezone, localtime,
                   linkFailed>>

\* ------------------------------------------------------------ specification
Next ==
    \/ ffi_stat
    \/ ffi_list
    \/ ffi_loop
    \/ ffi_isiso
    \/ ffi_mount
    \/ ffi_access
    \/ ffi_load
    \/ ffi_arch
    \/ ffi_repodata
    \/ ffi_size
    \/ ffi_size_cb
    \/ ffi_found
    \/ mi_loop
    \/ mi_scanned
    \/ mi_missing_cb
    \/ mi_mount
    \/ mi_mount_cb
    \/ oim_start
    \/ oim_loop
    \/ oim_controllable
    \/ oim_handle_format
    \/ oim_mkdtemp
    \/ oim_mount
    \/ oim_verify
    \/ oim_unmount
    \/ oim_rmdir
    \/ oim_found
    \/ vm_access
    \/ vm_open
    \/ vm_read
    \/ vm_cmp
    \/ vm_again
    \/ ntp_is_service_installed
    \/ ntp_service
    \/ ntp_config
    \/ tz_correct
    \/ tz_remove
    \/ tz_symlink
    \/ tz_is_s390
    \/ tz_adjtime

Spec == Init /\ [][Next]_vars

FairSpec == Spec /\ WF_vars(Next)

\* ------------------------------------------------------------ claims
IsMounted(f) == \E i \in 1..Len(mounts) : mounts[i] = f

\* The current candidate passed every check that precedes the size check.
Passed ==
    /\ fn \in 1..Len(files)
    /\ chk.of = what
    /\ chk.iso = "y"
    /\ chk.mounted = "y"
    /\ chk.readable = "y"
    /\ chk.parsed = "y"
    /\ disc_arch = arch
    /\ chk.repo = "valid"

BadSize == chk.size >= 0 /\ chk.size % 2048 # 0

Candidates ==
    {d \in DOMAIN devices : devices[d].type = "cdrom" \/ devices[d].fmt = "iso9660"}

MiTerminated == pc \in {"mi_done", "raised"}

\* C1: when findFirstIsoImage returns (an image name or None), no mount made at
\* /mnt/install/cdimage is still active.
C1_NoMountAfterReturn == pc = "ffi_return" => mounts = <<>>

\* C2: a name returned by findFirstIsoImage is the candidate under examination,
\* and that candidate was an ISO image, was mounted, had a readable and parseable
\* marker read through its own mount, matched the running architecture and had
\* valid repository metadata.
C2_ReturnedImagePassedEveryCheck ==
    (pc = "ffi_return" /\ retval # None) => (Passed /\ retval = what)

\* The second listed candidate is returned, the first having been rejected.
C2_Witness ==
    /\ entry = "findFirstIsoImage"
    /\ pc = "ffi_return"
    /\ retval = 2

\* C3: in opticalInstallMedia no device mount and no scratch directory outlives
\* the try block of its candidate: outside of it (next candidate, return, error
\* propagated from verifyMedia) nothing is mounted and no scratch directory is
\* left, inside of it only the current candidate's, and the unmount precedes the
\* removal of the directory.
C3_MountAndScratchDirScoped ==
    entry = "opticalInstallMedia" =>
        /\ pc \notin {"oim_mount", "oim_verify", "oim_unmount", "oim_rmdir"}
              => (devMounts = {} /\ tmpdirs = {})
        /\ pc \in {"oim_mount", "oim_verify", "oim_unmount", "oim_rmdir"}
              => (devMounts \subseteq {dev} /\ tmpdirs = {dev})
        /\ pc \in {"oim_mount", "oim_rmdir"} => devMounts = {}

\* verifyMedia raised for one device after the mount of another had failed, and
\* the error has left opticalInstallMedia.
C3_Witness ==
    /\ entry = "opticalInstallMedia"
    /\ pc = "raised"
    /\ \E d1, d2 \in DOMAIN devices :
          /\ nMount[d1] = 1 /\ verified[d1] = "?"
          /\ nMount[d2] = 1 /\ verified[d2] = "raise"

\* C4: opticalInstallMedia attempts a mount, or has a scratch directory, only for
\* a controllable device whose format exposes a mount capability after
\* handle_format.
C4_NoMountWithoutCapability ==
    \A d \in DOMAIN devices :
        (nMount[d] > 0 \/ d \in tmpdirs \/ d \in devMounts)
            => (devices[d].controllable /\ hasMount[d] = "y")

\* The call is over, having met a candidate that is not controllable and a
\* candidate without a mount capability.
C4_Witness ==
    /\ pc = "oim_return"
    /\ \E d1, d2 \in Candidates :
          /\ ~devices[d1].controllable
          /\ hasMount[d2] = "n"

\* C5: mountImage returns normally only with the resolved image mounted at the
\* target by its last mount attempt, never with a failed resolution or a failed
\* mount attempt behind it.
C5_ReturnsOnlyAfterSuccessfulMount ==
    pc = "mi_done" =>
        /\ image # None
        /\ treeMounts = <<image>>
        /\ exn = "none"
        /\ isfile(pathKind) \/ image = retval

\* mountImage returns after the policy suppressed two failures.
C5_Witness ==
    /\ pc = "mi_done"
    /\ pathKind = "dir"
    /\ cbCount = 2

\* C6: in mountImage a scan that returns None leads to the policy being called
\* with a MissingImageError and to no mount at the target: on ERROR_RAISE the
\* error propagates, otherwise the loop resolves the image again; a mount at the
\* target is only attempted with a resolved image.
C6_MissingImageGoesThroughPolicy ==
    /\ [][(entry = "mountImage" /\ pc = "ffi_return" /\ retval = None)
            => (pc' = "mi_missing_cb" /\ exn' = "MissingImageError"
                /\ treeMounts' = treeMounts)]_vars
    /\ [][pc = "mi_missing_cb"
            => /\ treeMounts' = treeMounts
               /\ answer' = ERROR_RAISE
                     => (pc' = "raised" /\ exn' = "MissingImageError")
               /\ answer' # ERROR_RAISE => pc' = "mi_loop"]_vars
    /\ [](pc = "mi_mount" => image # None)

\* The policy suppressed the MissingImageError of an empty scan and the loop is
\* back at resolving the image.
C6_Witness ==
    /\ entry = "mountImage"
    /\ pathKind = "dir"
    /\ pc = "mi_loop"
    /\ retval = None
    /\ answer = ERROR_RETRY
    /\ treeMounts = <<>>

\* C7: mountImage ends only by a successful mount or by an error the policy
\* answered ERROR_RAISE to; with a policy that raises after finitely many
\* failures it ends, a successful mount ends it at once, and with a policy that
\* always suppresses it keeps running for as long as no mount succeeds.
C7_EndsOnlyBySuccessOrPolicy ==
    /\ (entry = "mountImage" /\ patience # Never) => <>MiTerminated
    /\ [](entry = "mountImage" /\ treeMounts # <<>> => pc = "mi_done")
    /\ [](entry = "mountImage" /\ pc = "raised"
            => /\ answer = ERROR_RAISE
               /\ exn \in {"MissingImageError", "InvalidImageSizeError"})
    /\ [](entry = "mountImage" /\ patience = Never /\ treeMounts = <<>>
            => (~MiTerminated /\ ENABLED Next))

\* The policy suppressed as many failures as it had patience for, then raised.
C7_Witness ==
    /\ entry = "mountImage"
    /\ patience = MaxPatience
    /\ pc = "raised"
    /\ exn = "MissingImageError"

\* C8: on the exits of findFirstIsoImage that follow the size check (the return
\* of the accepted name, the InvalidImageSizeError raised on ERROR_RAISE) the
\* mount of the candidate has been released.
C8_MountReleasedOnEveryExit ==
    (\/ pc = "ffi_return" /\ retval # None
     \/ pc = "raised" /\ exn = "InvalidImageSizeError")
        => (fn \in 1..Len(files) /\ ~IsMounted(what))

\* C9: the policy is called with an InvalidImageSizeError exactly for a candidate
\* that passed the other checks and whose size is not a multiple of 2048; on
\* ERROR_RAISE the error propagates, otherwise the candidate is unmounted and
\* returned; a size that is a multiple of 2048 causes no call of the policy.
C9_SizeErrorGoesThroughPolicy ==
    /\ pc = "ffi_size_cb"
          => (BadSize /\ Passed /\ exn = "InvalidImageSizeError")
    /\ (pc = "raised" /\ exn = "InvalidImageSizeError")
          => (BadSize /\ Passed /\ answer = ERROR_RAISE)
    /\ (pc \in {"ffi_found", "ffi_return"} /\ BadSize)
          => (Passed /\ answer = ERROR_RETRY)
    /\ (pc = "ffi_return" /\ BadSize)
          => (retval = what /\ (entry = "findFirstIsoImage" => ~IsMounted(what)))
    /\ (entry = "findFirstIsoImage" /\ cbCount > 0) => BadSize

\* An image of 2049 bytes was reported, the policy suppressed, the image is
\* returned.
C9_Witness ==
    /\ entry = "findFirstIsoImage"
    /\ pc = "ffi_return"
    /\ chk.size = 2049
    /\ answer = ERROR_RETRY
    /\ retval = what

\* C10: with an existing directory whose listing is empty, findFirstIsoImage
\* goes from the listing straight to returning None: no candidate is examined,
\* nothing is mounted or unmounted, and the policy is not called.
C10_EmptyListingNoMount ==
    (entry = "findFirstIsoImage" /\ pathKind = "dir" /\ listing = <<>>) =>
        /\ pc \in {"ffi_stat", "ffi_list", "ffi_loop", "ffi_return"}
        /\ mounts = <<>>
        /\ ~umountErr
        /\ cbCount = 0
        /\ answer = "none"
        /\ pc = "ffi_return" => retval = None

\* The scan of an empty directory has returned.
C10_Witness ==
    /\ entry = "findFirstIsoImage"
    /\ pathKind = "dir"
    /\ listing = <<>>
    /\ files = <<>>
    /\ pc = "ffi_return"

\* Positions of findFirstIsoImage past the os.stat of its path.
ScanBody == {"ffi_list", "ffi_loop", "ffi_isiso", "ffi_mount", "ffi_access",
             "ffi_load", "ffi_arch", "ffi_repodata", "ffi_size", "ffi_size_cb",
             "ffi_found"}

\* C11: with a path that does not exist, findFirstIsoImage returns None straight
\* from the failed os.stat: it lists no directory, examines no candidate, mounts
\* nothing, and raises nothing.
C11_MissingPathReturnsNone ==
    (entry \in {"findFirstIsoImage", "mountImage"} /\ pathKind = "missing") =>
        /\ pc \notin ScanBody
        /\ files = <<>>
        /\ mounts = <<>>
        /\ ~umountErr
        /\ pc = "ffi_return" => retval = None
        /\ entry = "findFirstIsoImage" => (pc # "raised" /\ exn = "none")

\* The scan of a missing path has returned.
C11_Witness ==
    /\ entry = "findFirstIsoImage"
    /\ pathKind = "missing"
    /\ pc = "ffi_return"
    /\ retval = None

\* A line holds just the text t between optional whitespace.
IsText(line, t) ==
    \E i \in 1..Len(line) :
        /\ line[i] = t
        /\ \A j \in (1..Len(line)) \ {i} : line[j] \in White

\* A line holds whitespace only.
IsBlank(line) == \A j \in 1..Len(line) : line[j] \in White

\* The line equals the text s, a string of one token or the empty string.
LineEquals(line, s) == IF s = <<>> THEN IsBlank(line) ELSE IsText(line, s[1])

\* What C12 says verifyMedia answers for the tree and the timestamp argument.
ExpectedVerdict ==
    /\ vm_tree.readable
    /\ Len(vm_tree.lines) >= 3
    /\ IsText(vm_tree.lines[3], arch)
    /\ vm_timestamp # NoTimestamp => LineEquals(vm_tree.lines[1], vm_timestamp)

\* C12: verifyMedia returns true exactly when the marker is readable, its third
\* line is the running architecture and, with a timestamp argument, its first
\* line is that timestamp (lines compared without their surrounding whitespace);
\* without the argument the first line is ignored, and an unreadable marker
\* gives false.
C12_VerifyMediaVerdict ==
    (entry = "verifyMedia" /\ pc = "vm_return")
        => vmRet[Len(vmRet)] = ExpectedVerdict

\* A call with a timestamp argument returned true for a marker whose
\* architecture line carries whitespace on both sides.
C12_Witness ==
    /\ entry = "verifyMedia"
    /\ pc = "vm_return"
    /\ vmRet = <<TRUE>>
    /\ vm_timestamp = <<"1">>
    /\ vm_tree.lines[3] = <<" ", "x86_64", " ", "\n">>

\* C13: two calls of verifyMedia on the same tree with the same timestamp
\* argument return the same boolean, and no step of a call changes the tree or
\* mounts or unmounts anything.
C13_VerifyMediaIdempotent ==
    /\ [](Len(vmRet) = 2 => vmRet[1] = vmRet[2])
    /\ [](entry = "verifyMedia"
            => (mounts = <<>> /\ treeMounts = <<>> /\ devMounts = {}
                /\ ~umountErr))
    /\ [][vm_tree' = vm_tree /\ vm_timestamp' = vm_timestamp]_vars

\* Two calls have returned true for the same tree.
C13_Witness ==
    /\ entry = "verifyMedia"
    /\ pc = "vm_return"
    /\ vmRet = <<TRUE, TRUE>>
\* The device passed every check of the loop body.
Qualified(d) ==
    /\ d \in Candidates
    /\ devices[d].controllable
    /\ hasMount[d] = "y"
    /\ nMount[d] = 1
    /\ verified[d] = "y"

\* The device was examined and failed a check: not controllable, no mount
\* capability, a mount attempt that failed (so verifyMedia never ran), or a
\* verifyMedia that answered false.
Disqualified(d) ==
    \/ ~devices[d].controllable
    \/ hasMount[d] = "n"
    \/ nMount[d] = 1 /\ verified[d] = "?"
    \/ verified[d] = "n"

\* C14: opticalInstallMedia returns a device only if it is a candidate that is
\* controllable, has a mount capability, was mounted and passed verifyMedia; it
\* returns None exactly when every candidate failed one of these checks.
C14_ReturnsQualifiedDeviceOrNone ==
    (entry = "opticalInstallMedia" /\ pc = "oim_return") =>
        /\ oimRet # None => Qualified(oimRet)
        /\ oimRet = None => \A d \in Candidates : Disqualified(d)
        /\ oimRet = None <=> ~(\E d \in Candidates : Qualified(d))

\* A device is returned after another candidate failed verifyMedia.
C14_Witness ==
    /\ entry = "opticalInstallMedia"
    /\ pc = "oim_return"
    /\ oimRet # None
    /\ \E d \in Candidates : verified[d] = "n"
\* C15: when chronyd is not installed in the sysroot, ConfigureNTPTask.run()
\* calls neither enable_service nor disable_service, whatever ntp_enabled is,
\* and asks whether the service is installed exactly once.
C15_NotInstalledNoServiceCall ==
    (entry = "ConfigureNTPTask" /\ ~ntp_installed) =>
        /\ nEnable = 0
        /\ nDisable = 0
        /\ nInstalledChecks <= 1
        /\ pc = "ntp_done" => nInstalledChecks = 1

\* The task is over with NTP enabled and the configuration written, the service
\* not being installed.
C15_Witness ==
    /\ entry = "ConfigureNTPTask"
    /\ pc = "ntp_done"
    /\ ~ntp_installed
    /\ ntp_enabled
    /\ ntp_conf = save_servers_to_config(ntp_servers)
    /\ Len(ntp_servers) = 2

\* C16: when chronyd is installed, ConfigureNTPTask.run() makes exactly one
\* service call: enable_service once and disable_service never if ntp_enabled,
\* disable_service once and enable_service never otherwise.
C16_InstalledExactlyOneServiceCall ==
    (entry = "ConfigureNTPTask" /\ ntp_installed) =>
        /\ nEnable + nDisable <= 1
        /\ pc \in {"ntp_config", "ntp_done"} =>
              /\ nEnable = (IF ntp_enabled THEN 1 ELSE 0)
              /\ nDisable = (IF ntp_enabled THEN 0 ELSE 1)

\* The task is over with the service disabled once.
C16_Witness ==
    /\ entry = "ConfigureNTPTask"
    /\ pc = "ntp_done"
    /\ ntp_installed
    /\ ~ntp_enabled
    /\ nDisable = 1

\* The service calls ConfigureNTPTask.run() makes for its arguments.
ServiceDecision ==
    /\ nEnable = (IF ntp_installed /\ ntp_enabled THEN 1 ELSE 0)
    /\ nDisable = (IF ntp_installed /\ ~ntp_enabled THEN 1 ELSE 0)

\* C17: when writing the NTP configuration fails with NTPconfigError,
\* ConfigureNTPTask.run() does not raise: it logs a warning and ends, with the
\* service calls made exactly as in a run without the failure.
C17_SaveFailureIsWarningOnly ==
    entry = "ConfigureNTPTask" =>
        /\ pc # "raised"
        /\ exn = "none"
        /\ pc = "ntp_done" => ServiceDecision
        /\ saveFailed => (pc = "ntp_done" /\ "WARNING" \in logged)

\* The write failed, with the service installed and a configuration file in
\* place, which the failure left as it was.
C17_Witness ==
    /\ entry = "ConfigureNTPTask"
    /\ pc = "ntp_done"
    /\ saveFailed
    /\ ntp_installed
    /\ nEnable = 1
    /\ ntp_conf = OldConfig
TzOver == pc \in {"tz_done", "raised"}

ResolvedZone == IF input_zone \in ValidZones THEN input_zone ELSE FallbackZone

C22_OnlyLoadFailureSkipsUmount ==
    /\ [][(pc = "ffi_load" /\ pc' = "ffi_loop")
            => (mounts' = mounts /\ mounts # <<>> /\ Top(mounts) = what)]_vars
    /\ [][(pc \in {"ffi_access", "ffi_arch", "ffi_repodata"} /\ pc' = "ffi_loop")
            => (mounts # <<>> /\ Top(mounts) = what
                /\ mounts' = SubSeq(mounts, 1, Len(mounts) - 1))]_vars

\* The scan has moved past a candidate whose .discinfo did not load, and that
\* candidate is still mounted.
C22_Witness ==
    /\ pc = "ffi_loop"
    /\ chk.parsed = "n"
    /\ fn \in 1..Len(files)
    /\ IsMounted(what)
\* The checks recorded for a candidate show one that failed.
Rejected(r) ==
    \/ r.chk.iso = "n"
    \/ r.chk.mounted = "n"
    \/ r.chk.readable = "n"
    \/ r.chk.parsed = "n"
    \/ r.chk.parsed = "y" /\ r.disc_arch # arch
    \/ r.chk.repo \in {"absent", "invalid"}

\* The checks recorded for a candidate all passed.
Accepted(r) ==
    /\ r.chk.iso = "y"
    /\ r.chk.mounted = "y"
    /\ r.chk.readable = "y"
    /\ r.chk.parsed = "y"
    /\ r.disc_arch = arch
    /\ r.chk.repo = "valid"

\* C23: findFirstIsoImage examines the candidates in listing order and returns
\* the first acceptable one: when it returns name n, every candidate listed
\* before n was rejected and no candidate listed after n was examined or
\* mounted; it returns None exactly when every candidate was rejected.
C23_ReturnsFirstAcceptable ==
    /\ \A i \in 1..Len(seen) : seen[i].fn = i
    /\ pc \in {"ffi_isiso", "ffi_mount", "ffi_access", "ffi_load", "ffi_arch",
               "ffi_repodata", "ffi_size", "ffi_size_cb", "ffi_found"}
          => (Len(seen) = fn - 1 /\ \A i \in 1..Len(seen) : Rejected(seen[i]))
    /\ pc = "ffi_return" =>
          /\ nMounted = Cardinality({i \in 1..Len(seen) : seen[i].chk.mounted = "y"})
          /\ retval # None =>
                /\ Len(seen) >= 1
                /\ retval = files[Len(seen)]
                /\ Accepted(seen[Len(seen)])
                /\ \A i \in 1..(Len(seen) - 1) :
                      Rejected(seen[i]) /\ ~Accepted(seen[i])
          /\ retval = None =>
                /\ Len(seen) = Len(files)
                /\ \A i \in 1..Len(seen) : Rejected(seen[i]) /\ ~Accepted(seen[i])

\* The second name of the listing is returned, the first candidate having been
\* mounted and then rejected.
C23_Witness ==
    /\ pc = "ffi_return"
    /\ Len(files) = 2
    /\ retval = files[2]
    /\ seen[1].chk.mounted = "y"
\* C24: in mountImage a mount of the resolved image that fails with OSError
\* hands a MissingImageError to the policy; ERROR_RAISE raises it, and any other
\* answer starts the next iteration at image resolution (for a directory the
\* scanner runs again) instead of mounting the same image again.
C24_FailedMountResolvesAgain ==
    /\ [][(pc = "mi_mount" /\ pc' # "mi_done")
            => (pc' = "mi_mount_cb" /\ exn' = "MissingImageError"
                /\ treeMounts' = treeMounts)]_vars
    /\ [][pc = "mi_mount_cb"
            => /\ cbCount' = Bump(cbCount)
               /\ exn = "MissingImageError"
               /\ IF answer' = ERROR_RAISE
                  THEN pc' = "raised" /\ exn' = exn
                  ELSE pc' = "mi_loop"]_vars
    /\ [][pc = "mi_loop"
            => IF isfile(pathKind)
               THEN pc' = "mi_mount" /\ image' = Basename
               ELSE pc' = "ffi_stat" /\ retval' = None /\ seen' = <<>>]_vars

\* The scanner is running again after the mount of the image it had resolved
\* failed and the policy suppressed the error.
C24_Witness ==
    /\ entry = "mountImage"
    /\ pc = "ffi_isiso"
    /\ image # None
    /\ treeMounts = <<>>
    /\ cbCount >= 1
\* C25: one call of opticalInstallMedia considers each device at most once: a
\* device, also one that is both of type cdrom and of format iso9660, is
\* activated at most once and mounted at most once.
C25_EachDeviceAtMostOnce ==
    \A d \in DOMAIN devices :
        /\ nActivate[d] <= 1
        /\ nMount[d] <= 1
        /\ nMount[d] <= nActivate[d]

\* The call is over; a device that is both a cdrom and iso9660 was activated
\* once and mounted once.
C25_Witness ==
    /\ pc = "oim_return"
    /\ \E d \in DOMAIN devices :
          /\ devices[d].type = "cdrom"
          /\ devices[d].fmt = "iso9660"
          /\ nActivate[d] = 1
          /\ nMount[d] = 1
\* C26: opticalInstallMedia stops at the first valid device: once a candidate
\* has passed verifyMedia no further device is activated or mounted, and at
\* every point of the call at most one device mount made by it is active.
C26_StopsAtFirstValidDevice ==
    /\ [](Cardinality(devMounts) <= 1)
    /\ [](\A d \in DOMAIN devices :
             verified[d] = "y"
                => (dev = d /\ pc \in {"oim_unmount", "oim_rmdir", "oim_found",
                                       "oim_return"}))
    /\ [][(\E d \in DOMAIN devices : verified[d] = "y")
            => (nActivate' = nActivate /\ nMount' = nMount
                /\ devMounts' \subseteq devMounts)]_vars

\* A device is returned while a controllable candidate was never activated.
C26_Witness ==
    /\ pc = "oim_return"
    /\ oimRet # None
    /\ verified[oimRet] = "y"
    /\ \E d \in Candidates : devices[d].controllable /\ nActivate[d] = 0
\* C27: at every point of a scan by findFirstIsoImage at most one mount is
\* active at /mnt/install/cdimage: no candidate is mounted there while the mount
\* of an earlier candidate of the same scan is still active.
C27_AtMostOneScratchMount ==
    entry = "findFirstIsoImage" => Len(mounts) <= 1
\* C28: findFirstIsoImage and opticalInstallMedia unmount only a mount they made
\* and that is still active: a candidate that is not an ISO image, or whose
\* mount fails, is skipped with no unmount call, and the unmount calls of a call
\* never outnumber its successful mounts.
C28_UnmountOnlyAfterMount ==
    /\ [](nUmounted <= nMounted /\ ~umountErr)
    /\ [][nUmounted' > nUmounted
            => /\ nUmounted' = nUmounted + 1
               /\ \/ mounts # <<>> /\ Top(mounts) = what
                                   /\ mounts' = SubSeq(mounts, 1, Len(mounts) - 1)
                  \/ dev \in devMounts /\ devMounts' = devMounts \ {dev}]_vars
    /\ [][((pc \in {"ffi_isiso", "ffi_mount"} /\ pc' = "ffi_loop")
           \/ pc \in {"oim_controllable", "oim_handle_format", "oim_mount"})
            => nUmounted' = nUmounted]_vars

\* The scan returned the second name after one mount and one unmount, the
\* first candidate's mount having failed.
C28_Witness ==
    /\ pc = "ffi_return"
    /\ Len(seen) = 2
    /\ seen[1].chk.mounted = "n"
    /\ retval = files[2]
    /\ nMounted = 1
    /\ nUmounted = 1
\* C29: _check_repodata returns false whenever there is no base repository
\* metadata, whether or not the tree metadata loaded, and otherwise returns the
\* metadata's validity; a candidate for which it returns false is unmounted and
\* skipped with no call of the error policy, and the scan goes on to the next
\* candidate.
C29_RepodataRejectionUnmountsQuietly ==
    /\ [](\A loaded \in BOOLEAN :
             /\ ~_check_repodata(loaded, "absent")
             /\ ~_check_repodata(loaded, "invalid")
             /\ _check_repodata(loaded, "valid"))
    /\ [][pc = "ffi_repodata" =>
            IF chk'.repo = "valid"
            THEN pc' = "ffi_size" /\ mounts' = mounts /\ nUmounted' = nUmounted
            ELSE /\ pc' = "ffi_loop"
                 /\ mounts # <<>> /\ Top(mounts) = what
                 /\ mounts' = SubSeq(mounts, 1, Len(mounts) - 1)
                 /\ nUmounted' = nUmounted + 1
                 /\ cbCount' = cbCount /\ answer' = answer /\ exn' = exn
                 /\ fn' = fn /\ retval' = retval]_vars
    /\ [][(pc = "ffi_loop" /\ chk.repo \in {"absent", "invalid"})
            => (exn' = exn /\ cbCount' = cbCount
                /\ IF fn < Len(files)
                   THEN pc' = "ffi_isiso" /\ fn' = fn + 1
                   ELSE pc' = "ffi_return" /\ retval' = None)]_vars

\* The scan is at the second candidate after the first, without repository
\* metadata, was unmounted and skipped, the policy never having been called.
C29_Witness ==
    /\ entry = "findFirstIsoImage"
    /\ pc = "ffi_isiso"
    /\ fn = 2
    /\ seen[1].chk.repo = "absent"
    /\ mounts = <<>>
    /\ nUmounted = 1
    /\ cbCount = 0

=============================================================================
